---- MODULE Spec2Model ----
(***************************************************************************)
(* A model of the jmw / gmw build-and-deploy helper.  The repository holds *)
(* two implementations of the same tool: the Go one (internal/config,      *)
(* internal/detector, the builder appended to build.js, cmd/build.go) and  *)
(* the JavaScript one (detector in unnamed/part_000, builder and deployer  *)
(* in src/deployer.js, src/cli.js).  The variable impl says which of the   *)
(* two a run executes.                                                     *)
(*                                                                         *)
(* Text that the code inspects character by character (directory names,    *)
(* module names, artifact names) is a sequence of one-character strings.   *)
(* A path is the sequence of its segments; the filesystem root is <<>>.    *)
(***************************************************************************)
EXTENDS Integers, Sequences, FiniteSets, TLC

VARIABLES
    impl,          \* "go" | "js": the implementation this run executes
    pc,            \* position of the invocation
    registry,      \* cfg.Projects / config.projects, in document order
    fs,            \* [pomDirs: the directories that hold a pom.xml]
    pom,           \* content of the descriptor the locator finds
    cwd,           \* current working directory
    info,          \* detection result: ProjectInfo (go) / detection (js)
    profile,       \* requested profile, "" when none was given
    optSkipTests,  \* js: options.skipTests (--skip-tests)
    cmds,          \* the synthesized commands [build, install]
    executed,      \* history of external commands run: [kind, args, dir, ok]
    outcome,       \* how the invocation ended: "" | "ok" | "cancelled" | an error
    artifactName,  \* restart engine input
    restartRules,  \* cfg.RestartRules: NoRules or [GlobalModule, Patterns]
    isGlobalIn,    \* restart engine input: projectInfo.IsGlobalModule
    restart,       \* restart engine output <<severity, reason>>
    copied,        \* history of file operations of a deployment: [op, dest, ok]
    shown          \* what the invocation has reported, in order

vars == <<impl, pc, registry, fs, pom, cwd, info, profile, optSkipTests, cmds,
          executed, outcome, artifactName, restartRules, isGlobalIn, restart,
          copied, shown>>

detectVars == <<registry, fs, pom, cwd, info>>
buildVars == <<profile, optSkipTests, cmds, executed, outcome>>
restartVars == <<artifactName, restartRules, isGlobalIn, restart>>
deployVars == <<copied, shown>>

----------------------------------------------------------------------------
(* Text helpers: strings.HasPrefix / HasSuffix / Contains, String.startsWith *)

StartsWith(s, pre) ==
    Len(pre) <= Len(s) /\ SubSeq(s, 1, Len(pre)) = pre

HasSuffix(s, suf) ==
    Len(suf) <= Len(s) /\ SubSeq(s, Len(s) - Len(suf) + 1, Len(s)) = suf

Contains(s, sub) ==
    \E i \in 1..(Len(s) - Len(sub) + 1) : SubSeq(s, i, i + Len(sub) - 1) = sub

----------------------------------------------------------------------------
(* Paths *)

Root == <<>>
\* the empty string where a path is expected (an unset path setting)
EmptyPath == <<<<>>>>
Dot == <<".">>
DotDot == <<".", ".">>
Slash == <<"/">>

\* filepath.Dir / path.dirname of a clean absolute path
Dir(p) == IF p = Root THEN Root ELSE SubSeq(p, 1, Len(p) - 1)

\* filepath.Base / path.basename
Base(p) == IF p = Root THEN Slash ELSE p[Len(p)]

RECURSIVE JoinText(_)
\* the text of a relative path: its segments separated by "/"
JoinText(segs) ==
    IF segs = <<>> THEN <<>>
    ELSE IF Len(segs) = 1 THEN Head(segs)
    ELSE Head(segs) \o Slash \o JoinText(Tail(segs))

\* the text of an absolute path
PathText(p) == Slash \o JoinText(p)

RECURSIVE CommonLen(_, _)
CommonLen(a, b) ==
    IF a = <<>> \/ b = <<>> \/ Head(a) # Head(b) THEN 0
    ELSE 1 + CommonLen(Tail(a), Tail(b))

\* filepath.Rel / path.relative of two clean absolute paths, as segments
Rel(base, targ) ==
    LET k == CommonLen(base, targ)
        ups == [i \in 1..(Len(base) - k) |-> DotDot]
        rest == SubSeq(targ, k + 1, Len(targ))
    IN  IF ups \o rest = <<>> THEN <<Dot>> ELSE ups \o rest

----------------------------------------------------------------------------
(* JavaScript values: what `a && b`, `a || b` and `if (a)` see *)

JsUndefined == [t |-> "undefined"]
JsString(s) == [t |-> "string", s |-> s]
JsBool(b) == [t |-> "boolean", b |-> b]

Truthy(v) ==
    CASE v.t = "undefined" -> FALSE
      [] v.t = "string" -> v.s # ""
      [] v.t = "boolean" -> v.b

JsAnd(a, b) == IF Truthy(a) THEN b ELSE a
JsOr(a, b) == IF Truthy(a) THEN a ELSE b

----------------------------------------------------------------------------
(* Configuration model: config.go ProjectConfig, the same YAML document   *)
(* the JavaScript implementation reads.                                   *)

\* a lookup that reports every configured module as a normal deployment
GetModuleDeploymentPath_NeverGlobal(p, moduleName) ==
    IF moduleName \notin DOMAIN p.Modules
    THEN [path |-> "", isGlobal |-> FALSE, exists |-> FALSE]
    ELSE [path |-> p.Modules[moduleName], isGlobal |-> FALSE, exists |-> TRUE]

\* ProjectConfig.GetModuleDeploymentPath: (path, isGlobal, exists)
GetModuleDeploymentPath(p, moduleName) ==
    IF moduleName \notin DOMAIN p.Modules
    THEN [path |-> "", isGlobal |-> FALSE, exists |-> FALSE]
    ELSE IF p.Modules[moduleName] = ""
    THEN [path |-> "", isGlobal |-> FALSE, exists |-> TRUE]
    ELSE [path |-> p.Modules[moduleName], isGlobal |-> TRUE, exists |-> TRUE]

----------------------------------------------------------------------------
(* Detector, Go: internal/detector/detector.go *)

\* a check that looks for the pom.xml in the directory above
hasParentPom_InParentDir(fsys, path) == Dir(path) \in fsys.pomDirs

\* hasParentPom: the directory holds a pom.xml
hasParentPom(fsys, path) == path \in fsys.pomDirs

RECURSIVE findPomXMLFrom(_, _, _)
findPomXMLFrom(fsys, currentDir, steps) ==
    IF currentDir \in fsys.pomDirs
    THEN [found |-> TRUE, dir |-> currentDir, steps |-> steps]
    ELSE IF Dir(currentDir) = currentDir
    THEN [found |-> FALSE, dir |-> currentDir, steps |-> steps]
    ELSE findPomXMLFrom(fsys, Dir(currentDir), steps + 1)

\* a walk that returns the last directory tried instead of failing
findPomXML_NeverFails(fsys, startDir) ==
    [findPomXMLFrom(fsys, startDir, 0) EXCEPT !.found = TRUE]

\* findPomXML: walk up from startDir, the root included
findPomXML(fsys, startDir) == findPomXMLFrom(fsys, startDir, 0)

\* DetectProject's test: rel does not start with ".." and is not absolute
GoMatches(basePath, cwdv) ==
    ~StartsWith(JoinText(Rel(basePath, cwdv)), DotDot)

GoFailed(name, config, err) ==
    [err |-> err, Name |-> name, Config |-> config, ModuleName |-> <<>>,
     ModulePath |-> Root, RepoRoot |-> Root, Packaging |-> "",
     DeploymentPath |-> "", IsGlobalModule |-> FALSE]

\* ProjectInfo.detectModule
GoDetectModule(name, config, fsys, pomv, cwdv) ==
    LET located == findPomXML(fsys, cwdv)
        ModulePath == located.dir
        ModuleName == Base(ModulePath)
        Packaging == IF pomv.packaging = "" THEN "jar" ELSE pomv.packaging
        RepoRoot == IF hasParentPom(fsys, config.BasePath)
                    THEN config.BasePath ELSE ModulePath
        looked == GetModuleDeploymentPath(config, ModuleName)
    IN  IF ~located.found THEN GoFailed(name, config, "DescriptorNotFound")
        ELSE IF ~pomv.wellFormed THEN GoFailed(name, config, "Parse")
        ELSE IF ~looked.exists THEN GoFailed(name, config, "UnconfiguredModule")
        ELSE [err |-> "", Name |-> name, Config |-> config,
              ModuleName |-> ModuleName, ModulePath |-> ModulePath,
              RepoRoot |-> RepoRoot, Packaging |-> Packaging,
              DeploymentPath |-> looked.path, IsGlobalModule |-> looked.isGlobal]

----------------------------------------------------------------------------
(* Detector, JavaScript: unnamed/part_000 *)

RECURSIVE JsFindPomXmlFrom(_, _, _)
JsFindPomXmlFrom(fsys, currentDir, steps) ==
    IF currentDir = Root
    THEN [found |-> FALSE, dir |-> currentDir, steps |-> steps]
    ELSE IF currentDir \in fsys.pomDirs
    THEN [found |-> TRUE, dir |-> currentDir, steps |-> steps]
    ELSE JsFindPomXmlFrom(fsys, Dir(currentDir), steps + 1)

\* findPomXml: walk up while currentDir !== rootDir
JsFindPomXml(fsys, startPath) == JsFindPomXmlFrom(fsys, startPath, 0)

\* detectProject's test: currentPath.startsWith(base_path)
JsMatches(basePath, currentPath) ==
    StartsWith(PathText(currentPath), PathText(basePath))

JsFailed(err) == [err |-> err]

\* detectModule(pomPath, pom, projectConfig)
JsDetectModule(pomDir, pomv, projectConfig) ==
    LET artifactId == pomv.artifactId
        packaging == IF pomv.packaging = "" THEN "jar" ELSE pomv.packaging
        moduleConfig == IF artifactId \in DOMAIN projectConfig.Modules
                        THEN JsString(projectConfig.Modules[artifactId])
                        ELSE JsUndefined
        isGlobalModule == IF Truthy(moduleConfig)
                          THEN JsBool(moduleConfig.s # "") ELSE moduleConfig
        isMultiModule == Len(pomv.modules) > 0
    IN  [artifactId |-> artifactId,
         packaging |-> packaging,
         path |-> pomDir,
         relativePath |-> Rel(projectConfig.BasePath, pomDir),
         isGlobalModule |-> isGlobalModule,
         deploymentPath |-> JsOr(moduleConfig, JsString("")).s,
         isMultiModule |-> isMultiModule,
         modules |-> pomv.modules]

\* the index of the first project, in document order, that matches
JsFirstMatch(reg, currentPath) ==
    LET hits == {i \in 1..Len(reg) : JsMatches(reg[i].Config.BasePath, currentPath)}
    IN  IF hits = {} THEN 0 ELSE CHOOSE i \in hits : \A j \in hits : i <= j

\* detectProject(config, cwd)
JsDetect(reg, fsys, pomv, cwdv) ==
    LET m == JsFirstMatch(reg, cwdv)
        located == JsFindPomXml(fsys, cwdv)
    IN  IF m = 0 THEN JsFailed("NotInProject")
        ELSE IF ~located.found THEN JsFailed("DescriptorNotFound")
        ELSE IF ~pomv.wellFormed \/ pomv.artifactId = <<>> THEN JsFailed("Parse")
        ELSE [err |-> "", project |-> reg[m].Name, projectConfig |-> reg[m].Config,
              pomPath |-> located.dir \o <<<<"p", "o", "m", ".", "x", "m", "l">>>>,
              module |-> JsDetectModule(located.dir, pomv, reg[m].Config)]

----------------------------------------------------------------------------
(* Loading the configuration: config.Load (Go), loadConfig (JavaScript) *)

\* Config.Validate: "" when the configuration is accepted
Validate(projects) ==
    IF Len(projects) = 0 THEN "ConfigError"
    ELSE IF \E i \in 1..Len(projects) :
               \/ projects[i].Config.BasePath = EmptyPath
               \/ projects[i].Config.WildFlyRoot = EmptyPath
               \/ projects[i].Config.WildFlyMode \notin {"domain", "standalone"}
    THEN "ConfigError"
    ELSE ""

\* config.Load: the document is read, then validated
GoLoad ==
    /\ impl = "go" /\ pc = "load"
    /\ outcome' = Validate(registry)
    /\ pc' = IF outcome' = "" THEN "start" ELSE "failed"
    /\ UNCHANGED <<impl, profile, optSkipTests, cmds, executed>>
    /\ UNCHANGED detectVars
    /\ UNCHANGED restartVars
    /\ UNCHANGED deployVars

\* loadConfig: the document is read and its paths expanded; nothing is checked
JsLoadConfig ==
    /\ impl = "js" /\ pc = "load"
    /\ pc' = "start"
    /\ UNCHANGED <<impl, profile, optSkipTests, cmds, executed, outcome>>
    /\ UNCHANGED detectVars
    /\ UNCHANGED restartVars
    /\ UNCHANGED deployVars

----------------------------------------------------------------------------
(* Detection as a step of an invocation *)

\* DetectProject: Go ranges over a map, so any matching project may come first
GoDetectProject ==
    /\ impl = "go" /\ pc = "start"
    /\ LET hits == {i \in 1..Len(registry) : GoMatches(registry[i].Config.BasePath, cwd)}
       IN  \/ /\ hits = {}
              /\ info' = GoFailed(<<>>, registry[1].Config, "NotInProject")
           \/ \E i \in hits :
                info' = GoDetectModule(registry[i].Name, registry[i].Config, fs, pom, cwd)
    /\ pc' = IF info'.err = "" THEN "detected" ELSE "failed"
    /\ outcome' = info'.err
    /\ UNCHANGED <<impl, registry, fs, pom, cwd, profile, optSkipTests, cmds, executed>>
    /\ UNCHANGED restartVars
    /\ UNCHANGED deployVars

JsDetectProject ==
    /\ impl = "js" /\ pc = "start"
    /\ info' = JsDetect(registry, fs, pom, cwd)
    /\ pc' = IF info'.err = "" THEN "detected" ELSE "failed"
    /\ outcome' = info'.err
    /\ UNCHANGED <<impl, registry, fs, pom, cwd, profile, optSkipTests, cmds, executed>>
    /\ UNCHANGED restartVars
    /\ UNCHANGED deployVars

----------------------------------------------------------------------------
(* Command lines.  An argument is a word, a path (the module selector's   *)
(* value), a Go profile flag "-P<name>", or the JavaScript builder's      *)
(* comma-joined profile list.                                             *)

W(word) == [w |-> word]
PathArg(rel) == [path |-> rel]
IdArg(artifactId) == [id |-> artifactId]
ProfileFlag(name) == [P |-> name]
JoinedProfiles(names) == [joined |-> names]

IsProfileArg(a) == DOMAIN a = {"P"} \/ DOMAIN a = {"joined"}

\* the profile flags of a command line, in order
ProfileFlagsOf(args) == SelectSeq(args, IsProfileArg)

\* the lifecycle phases of a command line, in order
PhasesOf(args) ==
    SelectSeq(args, LAMBDA a : a \in {W("install"), W("package")})

\* the arguments that follow a "-pl"
SelectorsOf(args) ==
    {args[i + 1] : i \in {j \in 1..(Len(args) - 1) : args[j] = W("-pl")}}

HasAlsoMake(args) == \E i \in 1..Len(args) : args[i] = W("-am")

HasSkipTests(args) ==
    \E i \in 1..Len(args) : args[i] \in {W("-DskipTests"), W("-DskipTests=true")}

----------------------------------------------------------------------------
(* Builder, Go: the builder package appended to build.js, and config.go *)

\* Builder.isValidProfile
isValidProfile(config, prof) ==
    \/ Len(config.AvailableProfiles) = 0
    \/ \E i \in 1..Len(config.AvailableProfiles) : config.AvailableProfiles[i] = prof

\* ProjectConfig.GetProfileArgs
GetProfileArgs(p, prof) ==
    IF prof = ""
    THEN IF "" \in DOMAIN p.ProfileOverrides
         THEN [i \in 1..Len(p.ProfileOverrides[""]) |->
                  ProfileFlag(p.ProfileOverrides[""][i])]
         ELSE IF p.DefaultProfile # ""
         THEN <<ProfileFlag(p.DefaultProfile)>>
         ELSE <<>>
    ELSE IF prof \in DOMAIN p.ProfileOverrides
         THEN [i \in 1..Len(p.ProfileOverrides[prof]) |->
                  ProfileFlag(p.ProfileOverrides[prof][i])]
         ELSE <<ProfileFlag(prof)>>

\* getBuildCommand's test for a multi-module build (build from the repo root)
BuilderIsMultiModule(pi) ==
    pi.Config.RepoRoot # EmptyPath /\ pi.Config.RepoRoot # pi.ModulePath

\* Builder.getBuildCommand
getBuildCommand(pi, prof) ==
    <<W("mvn"), W("clean")>>
    \o (IF BuilderIsMultiModule(pi)
        THEN <<W("package"), W("-pl"),
               PathArg(Rel(pi.Config.RepoRoot, pi.ModulePath)), W("-am")>>
        ELSE IF pi.Packaging = "jar" THEN <<W("install")>> ELSE <<W("package")>>)
    \o GetProfileArgs(pi.Config, prof)
    \o (IF pi.Config.SkipTests THEN <<W("-DskipTests")>> ELSE <<>>)

\* Builder.getInstallCommand
getInstallCommand(pi) ==
    <<W("mvn"), W("install"), W("-pl"),
      PathArg(Rel(pi.Config.RepoRoot, pi.ModulePath)), W("-DskipTests")>>

\* Builder.Build's test before the install step
BuilderRunsInstall(pi) ==
    pi.Config.RepoRoot # EmptyPath /\ pi.Packaging = "jar"

\* Builder.executeBuild's working directory
BuilderWorkDir(pi) ==
    IF pi.Config.RepoRoot # EmptyPath THEN pi.Config.RepoRoot ELSE pi.ModulePath

\* a Build that goes on to the install step whatever the build command returned
AfterBuildCommand_IgnoresFailure(pi, ok) ==
    IF BuilderRunsInstall(pi) THEN "install"
    ELSE IF ok THEN "report" ELSE "failed"

\* a Build that drops the build command's error and carries on to the report
AfterBuildCommand_DropsError(pi, ok) ==
    IF ok /\ BuilderRunsInstall(pi) THEN "install" ELSE "report"

\* Builder.Build: where the run goes once the build command has returned
AfterBuildCommand(pi, ok) ==
    IF ~ok THEN "failed"
    ELSE IF BuilderRunsInstall(pi) THEN "install" ELSE "report"

\* ProjectInfo.GetBuildCommand (detector.go)
GetBuildCommand(pi, prof) ==
    <<W("mvn"), W("clean")>>
    \o (IF pi.RepoRoot # pi.ModulePath
        THEN <<W("package"), W("-pl"), PathArg(Rel(pi.RepoRoot, pi.ModulePath)), W("-am")>>
        ELSE IF pi.Packaging = "jar" THEN <<W("install")>> ELSE <<W("package")>>)
    \o GetProfileArgs(pi.Config, prof)
    \o (IF pi.Config.SkipTests THEN <<W("-DskipTests")>> ELSE <<>>)

----------------------------------------------------------------------------
(* Builder, JavaScript: the builder module appended to src/deployer.js *)

\* a buildModule that reads only the command-line option
JsSkipTests_OptionOnly(options, projectConfig) == options

\* buildModule: options.skipTests || projectConfig.skip_tests || false
JsSkipTests(options, projectConfig) == options \/ projectConfig.SkipTests

\* buildModule: profile || projectConfig.default_profile || 'none'
JsEffectiveProfile(prof, projectConfig) ==
    IF prof # "" THEN prof
    ELSE IF projectConfig.DefaultProfile # "" THEN projectConfig.DefaultProfile
    ELSE "none"

\* getProfiles(profile, projectConfig)
getProfiles(prof, projectConfig) ==
    IF prof = "" \/ prof = "none" THEN [err |-> "", profiles |-> <<>>]
    ELSE IF /\ Len(projectConfig.AvailableProfiles) > 0
            /\ ~\E i \in 1..Len(projectConfig.AvailableProfiles) :
                    projectConfig.AvailableProfiles[i] = prof
    THEN [err |-> "InvalidProfile", profiles |-> <<>>]
    ELSE IF prof \in DOMAIN projectConfig.ProfileOverrides
    THEN [err |-> "", profiles |-> projectConfig.ProfileOverrides[prof]]
    ELSE [err |-> "", profiles |-> <<prof>>]

\* buildMavenCommand(moduleInfo, profile, skipTests, projectConfig)
buildMavenCommand(moduleInfo, prof, skipTests, projectConfig) ==
    LET got == getProfiles(prof, projectConfig)
    IN  [err |-> got.err,
         args |->
            <<W("install")>>
            \o (IF Len(got.profiles) > 0
                THEN <<W("-P"), JoinedProfiles(got.profiles)>> ELSE <<>>)
            \o (IF skipTests THEN <<W("-DskipTests=true")>> ELSE <<>>)
            \o (IF moduleInfo.isMultiModule
                THEN <<W("-pl"), IdArg(moduleInfo.artifactId), W("-am")>> ELSE <<>>)]

\* buildModule's working directory for execa
JsWorkDir(moduleInfo, projectConfig) ==
    IF moduleInfo.isMultiModule THEN projectConfig.BasePath ELSE moduleInfo.path

----------------------------------------------------------------------------
(* A build invocation: cmd/build.go runBuild, cli.js `build` *)

NoCommand == <<>>
Commands(build, install) == [build |-> build, install |-> install]
NoCommands == Commands(NoCommand, NoCommand)
Ran(kind, args, dir, ok) == [kind |-> kind, args |-> args, dir |-> dir, ok |-> ok]

\* Builder.Build up to the confirmation prompt: validate, synthesize, show
GoBuildStart ==
    /\ impl = "go" /\ pc = "detected"
    /\ IF profile # "" /\ ~isValidProfile(info.Config, profile)
       THEN /\ pc' = "failed"
            /\ outcome' = "InvalidProfile"
            /\ UNCHANGED cmds
       ELSE /\ pc' = "confirm"
            /\ cmds' = Commands(getBuildCommand(info, profile), NoCommand)
            /\ UNCHANGED outcome
    /\ UNCHANGED <<impl, profile, optSkipTests, executed>>
    /\ UNCHANGED detectVars
    /\ UNCHANGED restartVars
    /\ UNCHANGED deployVars

\* buildModule up to the confirmation prompt
JsBuildStart ==
    /\ impl = "js" /\ pc = "detected"
    /\ LET made == buildMavenCommand(info.module,
                       JsEffectiveProfile(profile, info.projectConfig),
                       JsSkipTests(optSkipTests, info.projectConfig),
                       info.projectConfig)
       IN  IF made.err # ""
           THEN /\ pc' = "failed"
                /\ outcome' = made.err
                /\ UNCHANGED cmds
           ELSE /\ pc' = "confirm"
                /\ cmds' = Commands(made.args, NoCommand)
                /\ UNCHANGED outcome
    /\ UNCHANGED <<impl, profile, optSkipTests, executed>>
    /\ UNCHANGED detectVars
    /\ UNCHANGED restartVars
    /\ UNCHANGED deployVars

\* the confirmation prompt: the user accepts or declines
Confirm ==
    /\ pc = "confirm"
    /\ \E yes \in BOOLEAN :
         IF yes THEN pc' = "build" /\ UNCHANGED outcome
         ELSE pc' = "done" /\ outcome' = "cancelled"
    /\ UNCHANGED <<impl, profile, optSkipTests, cmds, executed>>
    /\ UNCHANGED detectVars
    /\ UNCHANGED restartVars
    /\ UNCHANGED deployVars

\* Builder.Build: executeBuild(buildCmd); the external build succeeds or fails
GoExecuteBuild ==
    /\ impl = "go" /\ pc = "build"
    /\ \E ok \in BOOLEAN :
         /\ executed' = Append(executed, Ran("build", cmds.build, BuilderWorkDir(info), ok))
         /\ pc' = AfterBuildCommand(info, ok)
         /\ outcome' = IF ok THEN outcome ELSE "BuildFailed"
    /\ UNCHANGED <<impl, profile, optSkipTests, cmds>>
    /\ UNCHANGED detectVars
    /\ UNCHANGED restartVars
    /\ UNCHANGED deployVars

\* Builder.Build: getInstallCommand and executeBuild(installCmd)
GoExecuteInstall ==
    /\ impl = "go" /\ pc = "install"
    /\ cmds' = [cmds EXCEPT !.install = getInstallCommand(info)]
    /\ \E ok \in BOOLEAN :
         /\ executed' = Append(executed,
                Ran("install", getInstallCommand(info), BuilderWorkDir(info), ok))
         /\ pc' = IF ok THEN "report" ELSE "failed"
         /\ outcome' = IF ok THEN outcome ELSE "InstallFailed"
    /\ UNCHANGED <<impl, profile, optSkipTests>>
    /\ UNCHANGED detectVars
    /\ UNCHANGED restartVars
    /\ UNCHANGED deployVars

\* buildModule: execa('mvn', cmdArgs, {cwd})
JsExecuteBuild ==
    /\ impl = "js" /\ pc = "build"
    /\ \E ok \in BOOLEAN :
         /\ executed' = Append(executed,
                Ran("build", cmds.build, JsWorkDir(info.module, info.projectConfig), ok))
         /\ pc' = IF ok THEN "report" ELSE "failed"
         /\ outcome' = IF ok THEN outcome ELSE "BuildFailed"
    /\ UNCHANGED <<impl, profile, optSkipTests, cmds>>
    /\ UNCHANGED detectVars
    /\ UNCHANGED restartVars
    /\ UNCHANGED deployVars

Msg(text) == [msg |-> text]

\* a jboss-cli line: deploy <artifact> --server-groups=<group>
DeployInstruction(name, serverGroup) ==
    [instruction |-> "deploy", artifact |-> name, serverGroups |-> serverGroup]

\* Builder.showRemoteDeploymentGuide; name is the artifact found in the
\* module's target directory, <<>> when there is none, and Config.Remote
\* says whether a remote is configured
showRemoteDeploymentGuide(pi, name) ==
    IF ~pi.Config.Remote THEN <<>>
    ELSE IF name = <<>> THEN <<>>
    ELSE IF pi.IsGlobalModule
    THEN <<[instruction |-> "scp", artifact |-> name, to |-> pi.DeploymentPath]>>
    ELSE IF pi.Config.WildFlyMode = "standalone"
    THEN <<[instruction |-> "scp", artifact |-> name, to |-> "standalone/deployments"],
           [instruction |-> "touch", artifact |-> name \o <<".", "d", "o", "d", "e", "p", "l", "o", "y">>]>>
    ELSE <<[instruction |-> "scp", artifact |-> name, to |-> "/tmp/"],
           DeployInstruction(name, pi.Config.ServerGroup)>>

\* what follows a successful build.  Builder.Build: the success message,
\* showArtifacts, showRestartGuidance, showRemoteDeploymentGuide;
\* buildModule: the success message and showArtifacts
BuildReports(which) ==
    IF which = "go"
    THEN <<Msg("success"), Msg("artifacts"), Msg("restart-guidance")>>
         \o showRemoteDeploymentGuide(info, artifactName)
    ELSE <<Msg("success"), Msg("artifacts")>>

\* the success message and the guidance that follows a successful build
Report ==
    /\ pc = "report"
    /\ pc' = "done"
    /\ outcome' = "ok"
    /\ shown' = shown \o BuildReports(impl)
    /\ UNCHANGED <<impl, profile, optSkipTests, cmds, executed, copied>>
    /\ UNCHANGED detectVars
    /\ UNCHANGED restartVars

----------------------------------------------------------------------------
(* Restart severity engine, Go: Builder.determineRestartRequirement *)

\* A match expression: malformed (regexp.MatchString returns an error), or
\* the unanchored expression  lit1.*lit2.*...litN  with an optional final $.
Regex(parts, anchorEnd) == [valid |-> TRUE, parts |-> parts, anchorEnd |-> anchorEnd]
MalformedRegex == [valid |-> FALSE, parts |-> <<>>, anchorEnd |-> FALSE]

RECURSIVE PartsMatch(_, _, _)
PartsMatch(parts, s, anchorEnd) ==
    IF parts = <<>> THEN TRUE
    ELSE LET lit == Head(parts)
         IN  \E i \in 1..(Len(s) - Len(lit) + 1) :
                /\ SubSeq(s, i, i + Len(lit) - 1) = lit
                /\ IF Len(parts) = 1
                   THEN anchorEnd => (i + Len(lit) - 1 = Len(s))
                   ELSE PartsMatch(Tail(parts), SubSeq(s, i + Len(lit), Len(s)), anchorEnd)

\* regexp.MatchString(pattern.Match, artifactName): (matched, err)
MatchString(rx, s) ==
    IF ~rx.valid THEN [matched |-> FALSE, err |-> TRUE]
    ELSE [matched |-> PartsMatch(rx.parts, s, rx.anchorEnd), err |-> FALSE]

sEJB == <<"E", "J", "B">>
sDotJar == <<".", "j", "a", "r">>
sDotWar == <<".", "w", "a", "r">>

GlobalModuleReason == "Global module modification"
EjbReason == "EJB implementation JAR"
WarReason == "WAR hot-deployment"
StandardReason == "Standard deployment (restart to ensure changes are loaded)"

\* a fallback that forgets the global-module check
fallbackRestartCheck_IgnoresGlobal(isGlobalModule, name) ==
    IF HasSuffix(name, sDotJar) /\ Contains(name, sEJB) THEN <<"recommended", EjbReason>>
    ELSE IF HasSuffix(name, sDotWar) THEN <<"none", WarReason>>
    ELSE <<"recommended", StandardReason>>

\* Builder.fallbackRestartCheck
fallbackRestartCheck(isGlobalModule, name) ==
    IF isGlobalModule THEN <<"required", GlobalModuleReason>>
    ELSE IF HasSuffix(name, sDotJar) /\ Contains(name, sEJB)
    THEN <<"recommended", EjbReason>>
    ELSE IF HasSuffix(name, sDotWar) THEN <<"none", WarReason>>
    ELSE <<"recommended", StandardReason>>

RECURSIVE firstMatch_StopsAtMalformed(_, _)
\* a loop that gives up at the first expression that does not compile
firstMatch_StopsAtMalformed(patterns, name) ==
    IF patterns = <<>> THEN [hit |-> FALSE, Severity |-> "", Reason |-> ""]
    ELSE LET pattern == Head(patterns)
             m == MatchString(pattern.Match, name)
         IN  IF m.err THEN [hit |-> FALSE, Severity |-> "", Reason |-> ""]
             ELSE IF m.matched
             THEN [hit |-> TRUE, Severity |-> pattern.Severity, Reason |-> pattern.Reason]
             ELSE firstMatch_StopsAtMalformed(Tail(patterns), name)

RECURSIVE firstMatch(_, _)
\* the loop over cfg.RestartRules.Patterns: the first pattern that compiles
\* and matches, or none
firstMatch(patterns, name) ==
    IF patterns = <<>> THEN [hit |-> FALSE, Severity |-> "", Reason |-> ""]
    ELSE LET pattern == Head(patterns)
             m == MatchString(pattern.Match, name)
         IN  IF m.err THEN firstMatch(Tail(patterns), name)
             ELSE IF m.matched
             THEN [hit |-> TRUE, Severity |-> pattern.Severity, Reason |-> pattern.Reason]
             ELSE firstMatch(Tail(patterns), name)

\* an engine that consults the patterns before the global-module override
determineRestartRequirement_PatternsFirst(isGlobalModule, rules, name) ==
    IF ~rules.configured \/ Len(rules.Patterns) = 0
    THEN fallbackRestartCheck(isGlobalModule, name)
    ELSE LET m == firstMatch(rules.Patterns, name)
         IN  IF m.hit THEN <<m.Severity, m.Reason>>
             ELSE IF isGlobalModule /\ rules.GlobalModule
             THEN <<"required", GlobalModuleReason>>
             ELSE IF HasSuffix(name, sDotWar) THEN <<"none", WarReason>>
             ELSE <<"recommended", StandardReason>>

\* Builder.determineRestartRequirement
determineRestartRequirement(isGlobalModule, rules, name) ==
    IF isGlobalModule /\ rules.configured /\ rules.GlobalModule
    THEN <<"required", GlobalModuleReason>>
    ELSE IF ~rules.configured \/ Len(rules.Patterns) = 0
    THEN fallbackRestartCheck(isGlobalModule, name)
    ELSE LET m == firstMatch(rules.Patterns, name)
         IN  IF m.hit THEN <<m.Severity, m.Reason>>
             ELSE IF HasSuffix(name, sDotWar) THEN <<"none", WarReason>>
             ELSE <<"recommended", StandardReason>>

\* the engine applied to an artifact of the module
DetermineRestart ==
    /\ pc = "restart"
    /\ restart' = determineRestartRequirement(isGlobalIn, restartRules, artifactName)
    /\ pc' = "restarted"
    /\ UNCHANGED <<impl, artifactName, restartRules, isGlobalIn>>
    /\ UNCHANGED detectVars
    /\ UNCHANGED buildVars
    /\ UNCHANGED deployVars

----------------------------------------------------------------------------
(* The bounded universe of inputs *)

sRepo == <<"r", "e", "p", "o">>
sApp == <<"a", "p", "p">>
sAppX == <<"a", "p", "p", "-", "x">>
sCore == <<"c", "o", "r", "e">>
sAuth == <<"a", "u", "t", "h">>
sSrc == <<"s", "r", "c">>
sDotsCache == <<".", ".", "c">>

BaseApp == <<sRepo, sApp>>
DirCore == <<sRepo, sApp, sCore>>
DirAuth == <<sRepo, sApp, sAuth>>
DirCoreSrc == <<sRepo, sApp, sCore, sSrc>>
DirAppX == <<sRepo, sAppX>>
\* a directory under the base path whose own name starts with two dots
DirDotted == <<sRepo, sApp, sDotsCache>>

GlobalPath == "modules/org/auth/main"
ModuleNames == {sCore, sAuth}
DeployPaths == {"", GlobalPath}
ModuleTables == UNION {[D -> DeployPaths] : D \in SUBSET ModuleNames}

NoOverrides == [k \in {} |-> <<>>]

\* a valid ProjectConfig (Config.Validate) with everything optional left out
BaseConfig(basePath, modules) ==
    [BasePath |-> basePath, DefaultProfile |-> "", AvailableProfiles |-> <<>>,
     ProfileOverrides |-> NoOverrides, SkipTests |-> FALSE,
     WildFlyRoot |-> <<<<"w", "f">>>>, WildFlyMode |-> "standalone",
     ServerGroup |-> "", Remote |-> FALSE, Modules |-> modules,
     RepoRoot |-> EmptyPath]

Project(name, config) == [Name |-> name, Config |-> config]

\* one project, or two with the second's base path nested in the first's
Registries(modules) ==
    { <<Project("app1", BaseConfig(BaseApp, modules))>>,
      <<Project("app1", BaseConfig(BaseApp, modules)),
        Project("app2", BaseConfig(DirCore, modules))>> }

Pom(artifactId, packaging, modules) ==
    [wellFormed |-> TRUE, artifactId |-> artifactId,
     packaging |-> packaging, modules |-> modules]

MalformedPom ==
    [wellFormed |-> FALSE, artifactId |-> <<>>, packaging |-> "", modules |-> <<>>]

ArtifactIds == {<<>>, sCore, sAuth}

DetectPoms ==
    {Pom(a, p, <<>>) : a \in ArtifactIds, p \in {"", "war"}} \cup {MalformedPom}

DetectPomDirs == SUBSET {Root, BaseApp, DirCore, DirAuth}
DetectCwds == {Root, BaseApp, DirCore, DirCoreSrc, DirAuth, DirAppX, DirDotted}

Pending == [err |-> "pending"]
NoRules == [configured |-> FALSE, GlobalModule |-> FALSE, Patterns |-> <<>>]

BuildIdle ==
    /\ profile = "" /\ optSkipTests = FALSE /\ cmds = NoCommands
    /\ executed = <<>> /\ outcome = ""

RestartIdle ==
    /\ artifactName = <<>> /\ restartRules = NoRules
    /\ isGlobalIn = FALSE /\ restart = <<"", "">>

DeployIdle == copied = <<>> /\ shown = <<>>

----------------------------------------------------------------------------
(* Specification of detection: project resolution and module classification *)

InitDetect ==
    /\ impl \in {"go", "js"}
    /\ pc = "start"
    /\ \E modules \in ModuleTables : registry \in Registries(modules)
    /\ fs \in [pomDirs : DetectPomDirs]
    /\ pom \in DetectPoms
    /\ cwd \in DetectCwds
    /\ info = Pending
    /\ BuildIdle
    /\ RestartIdle
    /\ DeployIdle

NextDetect == GoDetectProject \/ JsDetectProject

SpecDetect == InitDetect /\ [][NextDetect]_vars

----------------------------------------------------------------------------
(* Specification of a build invocation: detection, then the build *)

MaxOverrideLen == 2

ProfileNames == {"", "TEST", "PROD", "DEV", "none"}
AvailableChoices == {<<>>, <<"TEST", "PROD">>}
DefaultChoices == {"", "TEST", "DEV"}

OverrideTargets == <<"dev", "local", "qa", "perf">>
OverrideValues == {SubSeq(OverrideTargets, 1, n) : n \in 0..MaxOverrideLen}
OverrideTables == UNION {[K -> OverrideValues] : K \in SUBSET {"", "PROD"}}

BuildModules == (sCore :> "") @@ (sApp :> "")

BuildConfigs ==
    {[BaseConfig(BaseApp, BuildModules) EXCEPT
        !.AvailableProfiles = av, !.ProfileOverrides = ov,
        !.DefaultProfile = df, !.SkipTests = st] :
     av \in AvailableChoices, ov \in OverrideTables,
     df \in DefaultChoices, st \in BOOLEAN}

\* the settings only one implementation reads: Config.RepoRoot (go);
\* options.skipTests and the descriptor's <modules> (js)
InitBuildPerImpl ==
    \/ /\ impl = "go"
       /\ optSkipTests = FALSE
       /\ \E c \in BuildConfigs, rr \in {EmptyPath, BaseApp, DirCore}, pk \in {"jar", "war"} :
            /\ registry = <<Project("app1", [c EXCEPT !.RepoRoot = rr])>>
            /\ pom = Pom(sCore, pk, <<>>)
    \/ /\ impl = "js"
       /\ optSkipTests \in BOOLEAN
       /\ \E c \in BuildConfigs, pk \in {"jar", "war"}, ms \in {<<>>, <<sCore>>} :
            /\ registry = <<Project("app1", c)>>
            /\ pom = Pom(sCore, pk, ms)

InitBuild ==
    /\ pc = "start"
    /\ InitBuildPerImpl
    /\ fs \in [pomDirs : {{DirCore}, {BaseApp, DirCore}}]
    /\ cwd \in {DirCoreSrc, BaseApp}
    /\ info = Pending
    /\ profile \in ProfileNames
    /\ cmds = NoCommands /\ executed = <<>> /\ outcome = ""
    /\ RestartIdle
    /\ DeployIdle

NextBuild ==
    \/ GoDetectProject
    \/ JsDetectProject
    \/ GoBuildStart
    \/ JsBuildStart
    \/ Confirm
    \/ GoExecuteBuild
    \/ GoExecuteInstall
    \/ JsExecuteBuild
    \/ Report

SpecBuild == InitBuild /\ [][NextBuild]_vars

----------------------------------------------------------------------------
(* Views of a finished classification, whichever implementation made it *)

ClsConfig == IF impl = "go" THEN info.Config ELSE info.projectConfig
ClsModuleName == IF impl = "go" THEN info.ModuleName ELSE info.module.artifactId
ClsModulePath == IF impl = "go" THEN info.ModulePath ELSE info.module.path
ClsPackaging == IF impl = "go" THEN info.Packaging ELSE info.module.packaging
ClsIsGlobal ==
    IF impl = "go" THEN info.IsGlobalModule ELSE Truthy(info.module.isGlobalModule)
ClsDeploymentPath ==
    IF impl = "go" THEN info.DeploymentPath ELSE info.module.deploymentPath

\* the name the run's implementation looks up in the module table
LookupName ==
    IF impl = "go" THEN Base(findPomXML(fs, cwd).dir) ELSE pom.artifactId

\* detection got as far as the module-table lookup
ReachedLookup ==
    /\ pc \in {"detected", "failed"}
    /\ info.err \notin {"NotInProject", "DescriptorNotFound", "Parse"}

\* the module table the lookup was made in (the tables of a registry are equal)
LookupTable == registry[1].Config.Modules

(* C1: for every module name without an entry in the project's module table,
   classification fails with the unconfigured-module error and never returns
   a classification with default values. *)
C1_UnconfiguredModuleFails ==
    (ReachedLookup /\ LookupName \notin DOMAIN LookupTable)
        => info.err = "UnconfiguredModule"

(* C2: a module present with an empty value is classified isGlobal=false,
   deploymentPath=""; with a non-empty value isGlobal=true and deploymentPath
   is that value; in every classification isGlobal holds exactly when
   deploymentPath is non-empty.  (In the JavaScript implementation isGlobal
   is the truthiness of isGlobalModule, which is how every caller reads it.) *)
C2_ClassificationFollowsTable ==
    pc = "detected" =>
        /\ ClsModuleName \in DOMAIN ClsConfig.Modules =>
             LET value == ClsConfig.Modules[ClsModuleName]
             IN  /\ value = "" => (~ClsIsGlobal /\ ClsDeploymentPath = "")
                 /\ value # "" => (ClsIsGlobal /\ ClsDeploymentPath = value)
        /\ ClsIsGlobal <=> ClsDeploymentPath # ""

C2_Witness_GlobalModule ==
    /\ pc = "detected"
    /\ ClsModuleName \in DOMAIN ClsConfig.Modules
    /\ ClsIsGlobal
    /\ ClsDeploymentPath = GlobalPath

----------------------------------------------------------------------------
(* Build claims *)

Range(f) == {f[i] : i \in DOMAIN f}

\* detection succeeded and the builder has been entered
BuildEntered == info.err = "" /\ pc \notin {"start", "detected"}

\* a build command has been synthesized
Synthesized == cmds.build # NoCommand

ClsIsMultiModule ==
    IF impl = "go" THEN info.RepoRoot # info.ModulePath ELSE info.module.isMultiModule

\* the relative path of modulePath under the build root
ClsRelPath ==
    IF impl = "go" THEN Rel(info.RepoRoot, info.ModulePath) ELSE info.module.relativePath

\* the profile names a command line activates, in order
RECURSIVE ProfileNamesOf(_)
ProfileNamesOf(args) ==
    IF args = <<>> THEN <<>>
    ELSE LET a == Head(args)
         IN  (IF DOMAIN a = {"P"} THEN <<a.P>>
              ELSE IF DOMAIN a = {"joined"} THEN a.joined ELSE <<>>)
             \o ProfileNamesOf(Tail(args))

InstallRan == \E i \in 1..Len(executed) : executed[i].kind = "install"

(* C3: with a non-empty availableProfiles, a requested profile that is
   non-empty and not in the list makes synthesis fail with the invalid-profile
   error; a listed profile, or no requested profile, never fails with it. *)
C3_ProfileValidation ==
    (BuildEntered /\ Len(ClsConfig.AvailableProfiles) > 0) =>
        /\ (profile # "" /\ profile \notin Range(ClsConfig.AvailableProfiles))
              => outcome = "InvalidProfile"
        /\ (profile = "" \/ profile \in Range(ClsConfig.AvailableProfiles))
              => outcome # "InvalidProfile"

\* the profiles the stated precedence selects
ExpectedProfileNames ==
    IF profile \in DOMAIN ClsConfig.ProfileOverrides
    THEN ClsConfig.ProfileOverrides[profile]
    ELSE IF profile # "" THEN <<profile>>
    ELSE IF ClsConfig.DefaultProfile # "" THEN <<ClsConfig.DefaultProfile>>
    ELSE <<>>

(* C4: for a requested profile that passed validation the emitted profile
   flags follow the precedence: the override mapped to the profile (to "" when
   none was requested), in order; else the requested profile; else the
   default profile; else none. *)
C4_ProfilePrecedence ==
    Synthesized => ProfileNamesOf(cmds.build) = ExpectedProfileNames

(* C5: the build is multi-module exactly when repoRoot differs from
   modulePath; a multi-module command has phase package, the module selector
   of the relative path of modulePath under repoRoot and the
   also-build-dependencies flag; any other command has no module selector and
   phase install for packaging jar, package otherwise. *)
C5_PhaseAndScope ==
    Synthesized =>
        IF ClsIsMultiModule
        THEN /\ PhasesOf(cmds.build) = <<W("package")>>
             /\ SelectorsOf(cmds.build) = {PathArg(ClsRelPath)}
             /\ HasAlsoMake(cmds.build)
        ELSE /\ SelectorsOf(cmds.build) = {}
             /\ PhasesOf(cmds.build) =
                    <<W(IF ClsPackaging = "jar" THEN "install" ELSE "package")>>

(* C6: Builder.Build produces and runs the second (install) command if and
   only if the build is multi-module (repoRoot differs from modulePath) and
   the packaging is jar. *)
C6_InstallOnlyForMultiModuleJar ==
    (impl = "go" /\ BuildEntered) =>
        /\ InstallRan => (ClsIsMultiModule /\ ClsPackaging = "jar")
        /\ outcome = "ok" => (InstallRan <=> (ClsIsMultiModule /\ ClsPackaging = "jar"))

(* C7: the install command is executed only after the build command has been
   executed and has succeeded; once the build command has failed, the install
   command is never executed. *)
C7_InstallAfterSuccessfulBuild ==
    /\ \A i \in 1..Len(executed) :
         executed[i].kind = "install" =>
            \E j \in 1..(i - 1) : executed[j].kind = "build" /\ executed[j].ok
    /\ (\E j \in 1..Len(executed) : executed[j].kind = "build" /\ ~executed[j].ok)
         => ~InstallRan

C7_Witness_InstallRan ==
    /\ InstallRan
    /\ executed[1].kind = "build" /\ executed[1].ok

(* C8: the synthesized build command carries the skip-tests flag if and only
   if the project's skipTests setting is true or the caller asked for it on
   this invocation (the Go command line has no such option; optSkipTests is
   the JavaScript --skip-tests). *)
C8_SkipTestsFlag ==
    Synthesized =>
        /\ HasSkipTests(cmds.build) <=> (ClsConfig.SkipTests \/ optSkipTests)
        /\ impl = "go" =>
             (HasSkipTests(GetBuildCommand(info, profile)) <=> info.Config.SkipTests)

C8_Witness_RequestedOnly ==
    /\ Synthesized
    /\ optSkipTests /\ ~ClsConfig.SkipTests
    /\ HasSkipTests(cmds.build)

----------------------------------------------------------------------------
(* Specification of the restart severity engine *)

MaxNameChunks == 2
MaxPatterns == 2

RECURSIVE Flatten(_)
Flatten(chunks) ==
    IF chunks = <<>> THEN <<>> ELSE Head(chunks) \o Flatten(Tail(chunks))

NameChunks == {sEJB, <<"E", "J">>, sDotJar, sDotWar, <<"a">>}

\* artifact names: up to MaxNameChunks chunks, e.g. EJB.jar, a.war, .jarEJB
ArtifactNames ==
    UNION {{Flatten(f) : f \in [1..n -> NameChunks]} : n \in 0..MaxNameChunks}

RestartPattern(match, severity, reason) ==
    [Match |-> match, Severity |-> severity, Reason |-> reason]

PatternChoices ==
    { RestartPattern(Regex(<<sEJB, sDotJar>>, FALSE), "required", "ejb"),
      RestartPattern(Regex(<<sDotWar>>, TRUE), "none", "war"),
      RestartPattern(Regex(<<sDotJar>>, FALSE), "recommended", "jar"),
      RestartPattern(Regex(<<>>, FALSE), "critical", "any"),
      RestartPattern(MalformedRegex, "required", "malformed") }

PatternLists == UNION {[1..n -> PatternChoices] : n \in 0..MaxPatterns}

RuleSets ==
    {NoRules} \cup
    {[configured |-> TRUE, GlobalModule |-> g, Patterns |-> ps] :
        g \in BOOLEAN, ps \in PatternLists}

InitRestart ==
    /\ impl = "go"
    /\ pc = "restart"
    /\ registry = <<>> /\ fs = [pomDirs |-> {}] /\ pom = MalformedPom
    /\ cwd = Root /\ info = Pending
    /\ BuildIdle
    /\ artifactName \in ArtifactNames
    /\ restartRules \in RuleSets
    /\ isGlobalIn \in BOOLEAN
    /\ restart = <<"", "">>
    /\ DeployIdle

NextRestart == DetermineRestart

SpecRestart == InitRestart /\ [][NextRestart]_vars

(* C9: whenever the classification is global and the rule set's
   globalModuleOverride flag is true, the engine returns Required with the
   reason "global module modification", whatever the artifact name and the
   pattern list. *)
C9_GlobalOverrideWins ==
    (pc = "restarted" /\ isGlobalIn /\ restartRules.configured /\ restartRules.GlobalModule)
        => restart = <<"required", GlobalModuleReason>>

\* a global module under the override whose first pattern matches with
\* another severity
C9_Witness_OverrideOverMatchingPattern ==
    /\ pc = "restarted" /\ isGlobalIn
    /\ restartRules.configured /\ restartRules.GlobalModule
    /\ Len(restartRules.Patterns) > 0
    /\ MatchString(restartRules.Patterns[1].Match, artifactName).matched
    /\ restartRules.Patterns[1].Severity # "required"
    /\ restart = <<"required", GlobalModuleReason>>

(* C10: with an empty pattern list, or no rule set, the engine returns, in
   this order: Required for a global module (whatever the override flag);
   else Recommended (EJB implementation jar) for a name that ends in .jar and
   contains EJB; else None (war hot-deployment) for a name that ends in .war;
   else Recommended (standard deployment). *)
C10_FallbackHeuristic ==
    (pc = "restarted" /\ (~restartRules.configured \/ Len(restartRules.Patterns) = 0)) =>
        restart =
            IF isGlobalIn THEN <<"required", GlobalModuleReason>>
            ELSE IF HasSuffix(artifactName, sDotJar) /\ Contains(artifactName, sEJB)
            THEN <<"recommended", EjbReason>>
            ELSE IF HasSuffix(artifactName, sDotWar) THEN <<"none", WarReason>>
            ELSE <<"recommended", StandardReason>>

\* a global EJB jar, rule set configured without the override and without
\* patterns: Required wins over the EJB heuristic
C10_Witness_GlobalWithoutOverride ==
    /\ pc = "restarted" /\ isGlobalIn
    /\ restartRules.configured /\ ~restartRules.GlobalModule
    /\ Len(restartRules.Patterns) = 0
    /\ HasSuffix(artifactName, sDotJar) /\ Contains(artifactName, sEJB)
    /\ restart = <<"required", GlobalModuleReason>>

\* the positions of the patterns whose expression compiles and matches
MatchingPatterns(patterns, name) ==
    {i \in 1..Len(patterns) :
        LET m == MatchString(patterns[i].Match, name) IN ~m.err /\ m.matched}

\* the pattern list is consulted: it is non-empty and the override is off
PatternsConsulted ==
    /\ pc = "restarted"
    /\ restartRules.configured /\ Len(restartRules.Patterns) > 0
    /\ ~(isGlobalIn /\ restartRules.GlobalModule)

(* C11: when the pattern list is non-empty and the global-module override
   does not apply, the engine returns the severity and reason of the first
   pattern, in declared order, whose expression is well-formed and matches the
   artifact name; a malformed expression is skipped and hides no later
   pattern; when no pattern matches the result is None for a name ending in
   .war and Recommended (standard deployment) otherwise. *)
C11_FirstMatchingPattern ==
    PatternsConsulted =>
        LET hits == MatchingPatterns(restartRules.Patterns, artifactName)
        IN  IF hits # {}
            THEN LET k == CHOOSE i \in hits : \A j \in hits : i <= j
                 IN  restart = <<restartRules.Patterns[k].Severity,
                                 restartRules.Patterns[k].Reason>>
            ELSE IF HasSuffix(artifactName, sDotWar) THEN restart[1] = "none"
            ELSE restart = <<"recommended", StandardReason>>

\* a malformed first pattern followed by a matching one, which is returned
C11_Witness_MalformedThenMatch ==
    /\ PatternsConsulted
    /\ Len(restartRules.Patterns) = 2
    /\ MatchString(restartRules.Patterns[1].Match, artifactName).err
    /\ MatchString(restartRules.Patterns[2].Match, artifactName).matched
    /\ restartRules.Patterns[2].Severity = "recommended"
    /\ restart = <<"recommended", "jar">>

(* C12: for every artifact name, classification and rule set, whatever
   severity text its patterns declare, the severity the engine returns is one
   of none, recommended, required (the three cases showRestartGuidance
   reports). *)
C12_SeverityInRange ==
    pc = "restarted" => restart[1] \in {"none", "recommended", "required"}

----------------------------------------------------------------------------
(* Project resolution claims *)

\* p is base or lies under it, segment by segment
IsUnder(base, p) == Len(base) <= Len(p) /\ SubSeq(p, 1, Len(base)) = base

\* the configured projects whose base path holds the current directory
ContainingProjects ==
    {i \in 1..Len(registry) : IsUnder(registry[i].Config.BasePath, cwd)}

ClsProjectName == IF impl = "go" THEN info.Name ELSE info.project

(* C13: a configured project matches the current directory if and only if
   the current path equals its basePath or is nested under it segment by
   segment: a path that only shares a textual prefix with basePath never
   matches, and every directory under basePath matches whatever its segments
   are called.  Seen from the outcome: resolution fails as not-in-project
   exactly when no base path holds the directory, and a selected project's
   base path holds it. *)
C13_SegmentwiseMatch ==
    pc # "start" =>
        /\ (info.err = "NotInProject") <=> (ContainingProjects = {})
        /\ pc = "detected" => IsUnder(ClsConfig.BasePath, cwd)

(* C14: for a current directory under a configured base path the resolver
   selects that project, and under two nested base paths the one with the
   longest matching base path, the same on every run. *)
C14_LongestBasePathSelected ==
    pc = "detected" =>
        \E i \in ContainingProjects :
            /\ registry[i].Name = ClsProjectName
            /\ \A j \in ContainingProjects :
                    Len(registry[j].Config.BasePath) <= Len(registry[i].Config.BasePath)

(* C15: when the current directory is not equal to or nested under the base
   path of any configured project, resolution fails with the not-in-project
   error, and no descriptor lookup, classification or command synthesis takes
   place. *)
C15_NotInProjectFails ==
    (pc # "start" /\ ContainingProjects = {}) =>
        /\ pc = "failed"
        /\ info.err = "NotInProject" /\ outcome = "NotInProject"
        /\ cmds = NoCommands /\ executed = <<>>

----------------------------------------------------------------------------
(* Descriptor locator claims *)

\* p and the directories above it, the filesystem root included
Ancestors(p) == {SubSeq(p, 1, k) : k \in 0..Len(p)}

\* the directories from cwd up to the root that hold a descriptor
DescriptorsAbove == Ancestors(cwd) \cap fs.pomDirs

NearestDescriptorDir ==
    CHOOSE d \in DescriptorsAbove : \A e \in DescriptorsAbove : Len(e) <= Len(d)

\* the locator of the run's implementation, applied to the run's inputs
Located == IF impl = "go" THEN findPomXML(fs, cwd) ELSE JsFindPomXml(fs, cwd)

\* project resolution succeeded, so the locator was called
LocatorRan == pc # "start" /\ info.err # "NotInProject"

(* C16: from any start directory the locator returns the descriptor of the
   nearest directory, from the start directory up to and including the
   filesystem root, that holds one: the start directory is checked first, a
   descriptor N levels up is returned after exactly N upward steps, and a
   descriptor in the root directory is found. *)
C16_NearestDescriptorFound ==
    (LocatorRan /\ DescriptorsAbove # {}) =>
        /\ info.err # "DescriptorNotFound"
        /\ Located.found
        /\ Located.dir = NearestDescriptorDir
        /\ Located.steps = Len(cwd) - Len(NearestDescriptorDir)
        /\ pc = "detected" => ClsModulePath = NearestDescriptorDir

(* C17: the locator terminates for every start directory after at most as
   many upward steps as the depth of the start path, and when no directory
   from the start up to the root holds a descriptor it ends in the
   descriptor-not-found failure instead of returning a path. *)
C17_LocatorTerminatesOrFails ==
    LocatorRan =>
        /\ Located.steps <= Len(cwd)
        /\ DescriptorsAbove = {} =>
              /\ ~Located.found
              /\ pc = "failed" /\ info.err = "DescriptorNotFound"

\* a start four levels deep with no descriptor anywhere above it
C17_Witness_NotFoundFromDepth ==
    /\ LocatorRan
    /\ cwd = DirCoreSrc /\ DescriptorsAbove = {}
    /\ Located.steps = Len(cwd)
    /\ info.err = "DescriptorNotFound"

----------------------------------------------------------------------------
(* Classification claims *)

(* C18: the module name looked up in the module table and carried in the
   classification is the descriptor's artifactId whenever it declares one;
   the containing directory's name is used only when there is none. *)
C18_ModuleNameIsArtifactId ==
    pc = "detected" =>
        IF pom.artifactId # <<>>
        THEN ClsModuleName = pom.artifactId
        ELSE ClsModuleName = Base(ClsModulePath)

(* C19: in every classification (ProjectInfo) repoRoot is the project's
   basePath if basePath itself holds a descriptor, and modulePath otherwise;
   so repoRoot is always basePath or modulePath, and a module whose
   descriptor is the one in basePath has repoRoot = modulePath and is not a
   multi-module build. *)
C19_RepoRoot ==
    (impl = "go" /\ pc = "detected") =>
        /\ info.RepoRoot = IF info.Config.BasePath \in fs.pomDirs
                           THEN info.Config.BasePath ELSE info.ModulePath
        /\ info.RepoRoot \in {info.Config.BasePath, info.ModulePath}
        /\ info.ModulePath = info.Config.BasePath =>
              (info.RepoRoot = info.ModulePath /\ ~ClsIsMultiModule)

\* a module below a base path that holds the parent descriptor
C19_Witness_ModuleUnderBuildRoot ==
    /\ impl = "go" /\ pc = "detected"
    /\ info.Config.BasePath \in fs.pomDirs
    /\ info.ModulePath # info.Config.BasePath
    /\ info.RepoRoot = info.Config.BasePath
    /\ ClsIsMultiModule

----------------------------------------------------------------------------
(* Working directory claim *)

\* the build root of a classification: ProjectInfo.RepoRoot; the JavaScript
\* classification carries none, so there it is the rule that defines
\* repoRoot: basePath when basePath holds a descriptor, modulePath otherwise
ClsRepoRoot ==
    IF impl = "go" THEN info.RepoRoot
    ELSE IF info.projectConfig.BasePath \in fs.pomDirs
    THEN info.projectConfig.BasePath ELSE info.module.path

(* C20: every build-tool command of an invocation (the build command and,
   when present, the install command) is run with working directory repoRoot
   when the build is multi-module (repoRoot differs from modulePath) and with
   working directory modulePath otherwise. *)
C20_WorkingDirectory ==
    \A i \in 1..Len(executed) :
        executed[i].dir =
            IF ClsRepoRoot # ClsModulePath THEN ClsRepoRoot ELSE ClsModulePath

----------------------------------------------------------------------------
(* Deployer, JavaScript: src/deployer.js, and the `deploy` command of cli.js *)

sModules == <<"m", "o", "d", "u", "l", "e", "s">>
sMain == <<"m", "a", "i", "n">>
sStandalone == <<"s", "t", "a", "n", "d", "a", "l", "o", "n", "e">>
sDomain == <<"d", "o", "m", "a", "i", "n">>
sDeployments == <<"d", "e", "p", "l", "o", "y", "m", "e", "n", "t", "s">>
sDotDodeploy == <<".", "d", "o", "d", "e", "p", "l", "o", "y">>

\* a property read of an object: undefined when the object has no such key
JsGet(obj, key) == IF key \in DOMAIN obj THEN obj[key] ELSE JsUndefined

\* getWildflyConfig(projectConfig, clientConfig)
getWildflyConfig(projectConfig) ==
    [root |-> projectConfig.WildFlyRoot,
     mode |-> IF projectConfig.WildFlyMode # "" THEN projectConfig.WildFlyMode
              ELSE "standalone",
     serverGroup |-> projectConfig.ServerGroup]

FileOp(op, dest) == [op |-> op, dest |-> dest, ok |-> TRUE]

\* deployGlobalModule: mkdirSync(modulePath), copyFileSync(artifactPath, destPath)
deployGlobalModule(name, wildflyConfig, moduleInfo) ==
    LET modulesDir == wildflyConfig.root \o <<sModules>>
        modulePath == modulesDir \o <<<<moduleInfo.deploymentPath>>, sMain>>
    IN  <<FileOp("mkdir", modulePath), FileOp("copy", modulePath \o <<name>>)>>

\* a deployStandalone that writes the marker before it copies
deployStandalone_MarkerFirst(name, wildflyConfig, moduleInfo) ==
    LET deploymentsDir == wildflyConfig.root \o <<sStandalone, sDeployments>>
    IN  <<FileOp("mkdir", deploymentsDir),
          FileOp("marker", deploymentsDir \o <<name \o sDotDodeploy>>),
          FileOp("copy", deploymentsDir \o <<name>>)>>

\* deployStandalone: mkdirSync, copyFileSync, writeFileSync(markerPath)
deployStandalone(name, wildflyConfig, moduleInfo) ==
    LET deploymentsDir == wildflyConfig.root \o <<sStandalone, sDeployments>>
    IN  <<FileOp("mkdir", deploymentsDir),
          FileOp("copy", deploymentsDir \o <<name>>),
          FileOp("marker", deploymentsDir \o <<name \o sDotDodeploy>>)>>

\* deployDomain: mkdirSync, copyFileSync
deployDomain(name, wildflyConfig, moduleInfo) ==
    LET deploymentsDir == wildflyConfig.root \o <<sDomain, sDeployments>>
    IN  <<FileOp("mkdir", deploymentsDir), FileOp("copy", deploymentsDir \o <<name>>)>>

\* deployNormal
deployNormal(name, wildflyConfig, moduleInfo) ==
    IF wildflyConfig.mode = "standalone"
    THEN deployStandalone(name, wildflyConfig, moduleInfo)
    ELSE deployDomain(name, wildflyConfig, moduleInfo)

\* deployArtifact's try block: the file operations it sets out to do
DeployOps(name, wildflyConfig, moduleInfo) ==
    IF Truthy(moduleInfo.isGlobalModule)
    THEN deployGlobalModule(name, wildflyConfig, moduleInfo)
    ELSE deployNormal(name, wildflyConfig, moduleInfo)

\* the operations done when operation failAt throws (0: none does)
Performed(ops, failAt) ==
    IF failAt = 0 THEN ops
    ELSE [i \in 1..failAt |-> IF i = failAt THEN [ops[i] EXCEPT !.ok = FALSE] ELSE ops[i]]

\* what deployArtifact's try block has printed once its file operations
\* are over
DeployReports(name, wildflyConfig, moduleInfo, failAt) ==
    (IF ~Truthy(moduleInfo.isGlobalModule) /\ wildflyConfig.mode # "standalone"
     THEN <<DeployInstruction(name, wildflyConfig.serverGroup)>> ELSE <<>>)
    \o (IF failAt = 0 THEN <<Msg("Deployment completed")>> ELSE <<>>)

\* showRestartGuidance(wildflyConfig): it reads wildflyConfig.globalModule
RestartGuidanceText(wildflyConfig, moduleInfo) ==
    IF Truthy(JsGet(wildflyConfig, "globalModule"))
    THEN [guidance |-> "Restart required: YES"]
    ELSE [guidance |-> "Restart required: Check deployment"]

\* cli.js deploy: the artifact path is checked, then deployArtifact shows
\* the plan
JsDeployStart ==
    /\ impl = "js" /\ pc = "detected"
    /\ \E exists \in BOOLEAN :
         IF exists THEN pc' = "confirmDeploy" /\ UNCHANGED outcome
         ELSE pc' = "failed" /\ outcome' = "ArtifactNotFound"
    /\ UNCHANGED <<impl, profile, optSkipTests, cmds, executed>>
    /\ UNCHANGED detectVars
    /\ UNCHANGED restartVars
    /\ UNCHANGED deployVars

\* a deployArtifact that goes on after 'Deployment cancelled'
AfterDeployConfirm_NoReturn(confirmed) == "deploy"

\* deployArtifact: if (!confirmed) { ...; return; }
AfterDeployConfirm(confirmed) == IF confirmed THEN "deploy" ELSE "done"

\* deployArtifact: confirm('Proceed with deployment?')
JsDeployConfirm ==
    /\ pc = "confirmDeploy"
    /\ \E confirmed \in BOOLEAN :
         /\ pc' = AfterDeployConfirm(confirmed)
         /\ outcome' = IF confirmed THEN outcome ELSE "cancelled"
    /\ UNCHANGED <<impl, profile, optSkipTests, cmds, executed>>
    /\ UNCHANGED detectVars
    /\ UNCHANGED restartVars
    /\ UNCHANGED deployVars

\* deployArtifact: deployGlobalModule / deployNormal; any of the file
\* operations may throw, which ends the deployment
JsDeployFiles ==
    /\ pc = "deploy"
    /\ LET wildflyConfig == getWildflyConfig(info.projectConfig)
           ops == DeployOps(artifactName, wildflyConfig, info.module)
       IN  \E failAt \in 0..Len(ops) :
             /\ copied' = copied \o Performed(ops, failAt)
             /\ shown' = shown \o
                    DeployReports(artifactName, wildflyConfig, info.module, failAt)
             /\ pc' = IF failAt = 0 THEN "guidance" ELSE "failed"
             /\ outcome' = IF failAt = 0 THEN outcome ELSE "DeploymentFailed"
    /\ UNCHANGED <<impl, profile, optSkipTests, cmds, executed>>
    /\ UNCHANGED detectVars
    /\ UNCHANGED restartVars

\* deployArtifact: showRestartGuidance(wildflyConfig); the project has no
\* default_client, so no remote guide follows
JsShowRestartGuidance ==
    /\ pc = "guidance"
    /\ shown' = Append(shown,
            RestartGuidanceText(getWildflyConfig(info.projectConfig), info.module))
    /\ pc' = "done"
    /\ outcome' = "ok"
    /\ UNCHANGED <<impl, profile, optSkipTests, cmds, executed, copied>>
    /\ UNCHANGED detectVars
    /\ UNCHANGED restartVars

\* the process exit status: 0 when the command handler returns, 1 when it
\* returns an error (runBuild) or reaches process.exit(1) (cli.js); -1 while
\* the invocation is running
ExitStatus ==
    IF pc = "done" THEN 0 ELSE IF pc = "failed" THEN 1 ELSE -1

----------------------------------------------------------------------------
(* Specification of an invocation: detection, then a build or a deployment *)

WildFlyModes == {"", "standalone", "domain", "cluster"}
ServerGroups == {"", "main-server-group"}

sCoreJar == sCore \o sDotJar
sCoreWar == sCore \o sDotWar

\* one module table entry, every server mode and server group, with or
\* without a remote
InvocationConfigs ==
    {[BaseConfig(BaseApp, (sCore :> dp)) EXCEPT
        !.WildFlyMode = wm, !.ServerGroup = sg, !.Remote = rm,
        !.AvailableProfiles = <<"TEST">>] :
     dp \in DeployPaths, wm \in WildFlyModes, sg \in ServerGroups, rm \in BOOLEAN}

\* the documents only config.Load is given: no project, no base_path, no
\* wildfly_root; and Config.RepoRoot (go)
InitInvocationPerImpl ==
    \/ /\ impl = "go"
       /\ \/ registry = <<>>
          \/ \E c \in InvocationConfigs, rr \in {EmptyPath, BaseApp},
                bp \in {EmptyPath, BaseApp}, wr \in {EmptyPath, <<<<"w", "f">>>>} :
                registry = <<Project("app1",
                    [c EXCEPT !.RepoRoot = rr, !.BasePath = bp, !.WildFlyRoot = wr])>>
    \/ /\ impl = "js"
       /\ \E c \in InvocationConfigs :
            /\ ~c.Remote
            /\ registry = <<Project("app1", c)>>

InitInvocation ==
    /\ pc = "load"
    /\ InitInvocationPerImpl
    /\ fs = [pomDirs |-> {DirCore}]
    /\ pom \in {Pom(sCore, "jar", <<>>), Pom(sAuth, "war", <<>>)}
    /\ cwd = DirCoreSrc
    /\ info = Pending
    /\ profile \in {"", "TEST", "PROD"}
    /\ optSkipTests = FALSE
    /\ cmds = NoCommands /\ executed = <<>> /\ outcome = ""
    /\ artifactName \in {sCoreJar, sCoreWar}
    /\ restartRules = NoRules /\ isGlobalIn = FALSE /\ restart = <<"", "">>
    /\ DeployIdle

NextInvocation ==
    \/ GoLoad
    \/ JsLoadConfig
    \/ GoDetectProject
    \/ JsDetectProject
    \/ GoBuildStart
    \/ JsBuildStart
    \/ Confirm
    \/ GoExecuteBuild
    \/ GoExecuteInstall
    \/ JsExecuteBuild
    \/ Report
    \/ JsDeployStart
    \/ JsDeployConfirm
    \/ JsDeployFiles
    \/ JsShowRestartGuidance

SpecInvocation == InitInvocation /\ [][NextInvocation]_vars

----------------------------------------------------------------------------
(* Invocation claims *)

\* the invocation has not got past its confirmation prompt
BeforeConfirmation ==
    pc \in {"load", "start", "detected", "confirm", "confirmDeploy"}

(* C21: when the user declines the confirmation prompt of a build or a
   deploy, no build-tool command is executed and no file is copied, and the
   invocation ends with exit status 0; the build tool and the deployment copy
   run only after a positive confirmation in the same invocation. *)
C21_DeclineRunsNothing ==
    /\ outcome = "cancelled" =>
         (executed = <<>> /\ copied = <<>> /\ pc = "done" /\ ExitStatus = 0)
    /\ (executed # <<>> \/ copied # <<>>) =>
         (~BeforeConfirmation /\ outcome # "cancelled")

\* a declined deployment
C21_Witness_DeployDeclined ==
    /\ impl = "js" /\ outcome = "cancelled" /\ cmds = NoCommands
    /\ pc = "done" /\ copied = <<>> /\ ExitStatus = 0

BuildErrors == {"InvalidProfile", "BuildFailed", "InstallFailed"}

(* C22: every error of a build invocation is terminal: once profile
   validation, the build command or the install command fails, no further
   external command is executed, no success message, artifact list, restart
   guidance or remote-deployment guide is produced, the invocation ends with
   a non-zero status, and no command is executed more than once. *)
C22_BuildErrorsAreTerminal ==
    /\ outcome \in BuildErrors => (pc = "failed" /\ shown = <<>> /\ ExitStatus = 1)
    /\ outcome = "InvalidProfile" => executed = <<>>
    /\ \A i \in 1..Len(executed) :
         ~executed[i].ok => (i = Len(executed) /\ outcome \in BuildErrors)
    /\ \A i, j \in 1..Len(executed) :
         executed[i].kind = executed[j].kind => i = j

\* the install command failed after a successful build command
C22_Witness_InstallFailed ==
    /\ outcome = "InstallFailed" /\ pc = "failed"
    /\ Len(executed) = 2 /\ executed[1].ok /\ ~executed[2].ok
    /\ shown = <<>> /\ ExitStatus = 1

\* config.Load / loadConfig has returned the configuration
Accepted == pc # "load" /\ outcome # "ConfigError"

(* C23: every configuration accepted by validation has, for each project,
   wildflyMode in {standalone, domain} and a serverGroup that is set whenever
   the mode is domain; so no deployment instruction is ever generated with an
   empty server group. *)
C23_AcceptedConfigHasServerGroup ==
    /\ Accepted =>
         \A i \in 1..Len(registry) :
            /\ registry[i].Config.WildFlyMode \in {"standalone", "domain"}
            /\ registry[i].Config.WildFlyMode = "domain" =>
                  registry[i].Config.ServerGroup # ""
    /\ \A k \in 1..Len(shown) :
         "serverGroups" \in DOMAIN shown[k] => shown[k].serverGroups # ""

----------------------------------------------------------------------------
(* Deployment claims *)

\* the guidance lines shown, in order
GuidanceShown ==
    SelectSeq(shown, LAMBDA m : "guidance" \in DOMAIN m)

(* C24: after deployArtifact has deployed a module classified as global
   (moduleInfo.isGlobalModule true) the restart guidance it shows reports
   "Restart required: YES"; for a non-global module it reports the
   check-deployment guidance. *)
C24_GuidanceFollowsClassification ==
    (impl = "js" /\ GuidanceShown # <<>>) =>
        GuidanceShown =
            <<[guidance |-> IF Truthy(info.module.isGlobalModule)
                            THEN "Restart required: YES"
                            ELSE "Restart required: Check deployment"]>>

\* the operations of one kind done so far, in order
OpsOf(kind) == SelectSeq(copied, LAMBDA f : f.op = kind)

\* some segment of the path is a deployments folder
InDeployments(dest) == \E i \in 1..Len(dest) : dest[i] = sDeployments

(* C25: in a local deployment the target of the copy follows the
   classification and the server mode: a global module is copied only under
   the server's modules directory at its deploymentPath and never into a
   deployments folder; a normal module in standalone mode is copied into
   standalone/deployments and its .dodeploy marker is created only after the
   copy has succeeded; a normal module in domain mode is copied into
   domain/deployments and no marker is created. *)
C25_DeploymentTarget ==
    copied # <<>> =>
        LET root == info.projectConfig.WildFlyRoot
            mode == getWildflyConfig(info.projectConfig).mode
            copies == OpsOf("copy")
            markers == OpsOf("marker")
        IN  /\ Len(copies) <= 1
            /\ IF Truthy(info.module.isGlobalModule)
               THEN /\ \A k \in 1..Len(copied) :
                         /\ IsUnder(root \o <<sModules, <<info.module.deploymentPath>>>>,
                                    copied[k].dest)
                         /\ ~InDeployments(copied[k].dest)
                    /\ markers = <<>>
               ELSE IF mode = "standalone"
               THEN /\ \A k \in 1..Len(copies) :
                         copies[k].dest = root \o <<sStandalone, sDeployments, artifactName>>
                    /\ markers # <<>> =>
                         \E i, j \in 1..Len(copied) :
                            /\ i < j
                            /\ copied[i].op = "copy" /\ copied[i].ok
                            /\ copied[j].op = "marker"
               ELSE IF mode = "domain"
               THEN /\ \A k \in 1..Len(copies) :
                         copies[k].dest = root \o <<sDomain, sDeployments, artifactName>>
                    /\ markers = <<>>
               ELSE TRUE

\* a normal module deployed in standalone mode, marker written
C25_Witness_StandaloneWithMarker ==
    /\ Len(copied) = 3
    /\ pc = "done" /\ outcome = "ok"
    /\ ~Truthy(info.module.isGlobalModule)
    /\ copied[2].op = "copy" /\ copied[2].ok
    /\ copied[3].op = "marker" /\ copied[3].ok

====
